---- MODULE Spec2Model ----
(***************************************************************************)
(* A model of HybridCryptoClient (src/crypto.py): the hybrid RSA + AES     *)
(* encryption of a log payload into one packet and its submission by a     *)
(* single HTTP POST.                                                       *)
(*                                                                         *)
(* Byte strings are sequences of integers in 0..255, text is a sequence    *)
(* of Unicode code points.  Python values are records carrying a `type`    *)
(* field.  The primitives of the `cryptography` package (AES, RSA, the     *)
(* OAEP mask generation) are replaced by small keyed bijections with the   *)
(* same shape: same block size, same key and output lengths, invertible    *)
(* only with the matching key.  Everything around them (serialisation,     *)
(* padding, CBC chaining, OAEP layout, framing, status handling) is        *)
(* computed as the code computes it.                                       *)
(***************************************************************************)
EXTENDS Integers, Sequences, FiniteSets, TLC

\* ------------------------------------------------------------------ bounds

\* Longest plain ASCII string payload offered to encrypt_data (0..MaxLen).
MaxLen == 17

\* os.urandom yields one of MaxRandom + 1 different byte patterns per draw.
MaxRandom == 1

\* --------------------------------------------------------- program constants

\* AES block size, the 16 of `16 - (len(json_bytes) % 16)`.
BlockSize == 16

\* os.urandom(32): the AES-256 key length in bytes.
AesKeyLen == 32

\* self.iv_length = 16.
IvLength == 16

\* Output length of hashes.SHA256(), the OAEP hash and MGF1 hash.
HashLen == 32

\* ------------------------------------------------------------ Python values

None == [type |-> "NoneType"]

True == [type |-> "bool", b |-> TRUE]

Str(cps) == [type |-> "str", s |-> cps]

\* A dict whose items are <<key, value>> pairs; keys are text, values are
\* Python values.
Dict(items) == [type |-> "dict", items |-> items]

\* A value json.dumps cannot serialise (a set, a bytes object, ...).
Obj == [type |-> "object"]

PyInt(n) == [type |-> "int", n |-> n]

\* A bytes object: the packet, a local buffer, or a key given as bytes.
Bytes(b) == [type |-> "bytes", b |-> b]

\* The text of a PEM-encoded RSA public key with an n-byte modulus; id names
\* the key pair.
Pem(n, id) == [type |-> "str", pem |-> [n |-> n, id |-> id]]

IsPem(v) == v.type = "str" /\ "pem" \in DOMAIN v

\* A function over 1..n as the sequence of its values.
SeqOf(f) == f \o <<>>

Rep(b, n) == SeqOf([i \in 1..n |-> b])

\* Python truthiness of the values a public key slot can hold.
Truthy(v) ==
    CASE v.type = "NoneType" -> FALSE
      [] v.type = "str" -> IsPem(v) \/ Len(v.s) > 0
      [] OTHER -> TRUE

\* ------------------------------------------------------------ serialisation

HexDigit(d) == IF d < 10 THEN 48 + d ELSE 87 + d

\* json's ensure_ascii escaping of one character of a string (code points
\* below 65536).
EscapeChar(c) ==
    CASE c = 34 -> <<92, 34>>
      [] c = 92 -> <<92, 92>>
      [] c = 10 -> <<92, 110>>
      [] c = 13 -> <<92, 114>>
      [] c = 9 -> <<92, 116>>
      [] c = 8 -> <<92, 98>>
      [] c = 12 -> <<92, 102>>
      [] c >= 32 /\ c <= 126 /\ c # 34 /\ c # 92 -> <<c>>
      [] OTHER -> <<92, 117, HexDigit(c \div 4096), HexDigit((c \div 256) % 16),
                    HexDigit((c \div 16) % 16), HexDigit(c % 16)>>

RECURSIVE EscapeText(_)
EscapeText(cps) ==
    IF cps = <<>> THEN <<>>
    ELSE EscapeChar(Head(cps)) \o EscapeText(Tail(cps))

JsonString(cps) == <<34>> \o EscapeText(cps) \o <<34>>

\* json.dumps raises TypeError on a value it cannot serialise.
RECURSIVE Serializable(_)
Serializable(v) ==
    CASE v.type = "str" -> TRUE
      [] v.type = "dict" ->
            \A i \in 1..Len(v.items) : Serializable(v.items[i][2])
      [] OTHER -> FALSE

RECURSIVE JsonItems(_)
RECURSIVE JsonDumps(_)
JsonItems(items) ==
    IF items = <<>> THEN <<>>
    ELSE JsonString(items[1][1]) \o <<58, 32>> \o JsonDumps(items[1][2])
         \o (IF Len(items) > 1 THEN <<44, 32>> ELSE <<>>)
         \o JsonItems(Tail(items))

\* json.dumps(data) with the default separators ", " and ": ".
JsonDumps(v) ==
    IF v.type = "str" THEN JsonString(v.s)
    ELSE <<123>> \o JsonItems(v.items) \o <<125>>

\* json_str = json.dumps(data) if not isinstance(data, str) else data
JsonStr(data) == IF data.type = "str" THEN data.s ELSE JsonDumps(data)

IsSurrogate(c) == c >= 55296 /\ c <= 57343

\* str.encode("utf-8") raises UnicodeEncodeError on a lone surrogate.
Encodable(cps) == \A i \in 1..Len(cps) : ~IsSurrogate(cps[i])

Utf8Char(c) ==
    IF c < 128 THEN <<c>>
    ELSE IF c < 2048 THEN <<192 + (c \div 64), 128 + (c % 64)>>
    ELSE IF c < 65536 THEN
        <<224 + (c \div 4096), 128 + ((c \div 64) % 64), 128 + (c % 64)>>
    ELSE <<240 + (c \div 262144), 128 + ((c \div 4096) % 64),
           128 + ((c \div 64) % 64), 128 + (c % 64)>>

RECURSIVE Utf8Encode(_)
Utf8Encode(cps) ==
    IF cps = <<>> THEN <<>>
    ELSE Utf8Char(Head(cps)) \o Utf8Encode(Tail(cps))

\* ------------------------------------------------------------------ padding

\* A padding that leaves block-aligned data without a pad block.
PaddingLengthNoFullBlock(L) == (BlockSize - (L % BlockSize)) % BlockSize

\* padding_length = 16 - (len(json_bytes) % 16)
PaddingLength(L) == BlockSize - (L % BlockSize)

\* A padding of zero bytes instead of bytes holding the padding length.
PadZeros(bytes) == bytes \o Rep(0, PaddingLength(Len(bytes)))

\* padded_data = json_bytes + bytes([padding_length] * padding_length)
Pad(bytes) ==
    bytes \o Rep(PaddingLength(Len(bytes)), PaddingLength(Len(bytes)))

\* ----------------------------------------------------------- symmetric part

XorBit(a, b, w) == (((a \div w) + (b \div w)) % 2) * w

XorByte(a, b) ==
    XorBit(a, b, 1) + XorBit(a, b, 2) + XorBit(a, b, 4) + XorBit(a, b, 8)
    + XorBit(a, b, 16) + XorBit(a, b, 32) + XorBit(a, b, 64)
    + XorBit(a, b, 128)

XorBytes(x, y) == SeqOf([i \in 1..Len(x) |-> XorByte(x[i], y[i])])

\* The block cipher of algorithms.AES(aes_key): a keyed permutation of the
\* 16-byte blocks (a byte rotation followed by a keyed byte substitution).
BlockEncrypt(key, blk) ==
    SeqOf([i \in 1..BlockSize |->
        (blk[(i % BlockSize) + 1] + key[i] + 3 * key[i + BlockSize]) % 256])

\* modes.CBC(iv): each plaintext block is xored with the previous ciphertext
\* block (the IV for the first) before it is encrypted.
RECURSIVE CbcChain(_, _, _)
CbcChain(key, prevc, data) ==
    IF Len(data) < BlockSize THEN <<>>
    ELSE LET c == BlockEncrypt(key, XorBytes(SubSeq(data, 1, BlockSize), prevc))
         IN  c \o CbcChain(key, c, SubSeq(data, BlockSize + 1, Len(data)))

\* encryptor.update(padded_data) + encryptor.finalize()
CbcEncrypt(key, v, padded) == CbcChain(key, v, padded)

\* ---------------------------------------------------------- asymmetric part

\* load_pem_public_key(self.public_key.encode("utf-8")) succeeds only on a
\* str holding a PEM public key: a bytes object has no encode (AttributeError)
\* and any other text is rejected by the parser (ValueError).
Parsable(k) == IsPem(k)

LoadError(k) ==
    IF k.type = "str" THEN [type |-> "ValueError"]
    ELSE [type |-> "AttributeError"]

\* The key object load_pem_public_key returns.
LoadPemPublicKey(k) == k.pem

\* SHA-256 of the empty label (label=None).
LHash == SeqOf([i \in 1..HashLen |-> (226 + i) % 256])

\* padding.MGF1: a mask of the asked length derived from the input.
Mgf(x, len) ==
    SeqOf([i \in 1..len |-> (x[((i - 1) % Len(x)) + 1] + i) % 256])

\* The RSA public operation: a permutation of the n-byte strings fixed by
\* the key pair.
RsaPublic(pk, em) ==
    SeqOf([i \in 1..pk.n |-> (em[i] + 5 * pk.id + i) % 256])

\* OAEP encoding of the message under a seed: 00 || maskedSeed || maskedDB
\* with DB = lHash || PS || 01 || M.
OaepEncode(n, msg, seed) ==
    LET db == LHash \o Rep(0, n - Len(msg) - 2 * HashLen - 2) \o <<1>> \o msg
        maskedDB == XorBytes(db, Mgf(seed, Len(db)))
        maskedSeed == XorBytes(seed, Mgf(maskedDB, HashLen))
    IN  <<0>> \o maskedSeed \o maskedDB

\* An encryption that leaves the seed out (deterministic RSA).
PublicEncryptNoSeed(pk, msg, seed) ==
    RsaPublic(pk, OaepEncode(pk.n, msg, Rep(0, HashLen)))

\* public_key_obj.encrypt(aes_key, padding.OAEP(MGF1(SHA256), SHA256, None))
PublicEncrypt(pk, msg, seed) == RsaPublic(pk, OaepEncode(pk.n, msg, seed))

\* ------------------------------------------------------------------ framing

\* A framing that puts the IV first.
AssembleIvFirst(wrapped, v, content) == v \o wrapped \o content

\* A framing that leaves the IV out.
AssembleNoIv(wrapped, v, content) == wrapped \o content

\* result_buffer = encrypted_aes_key + iv + encrypted_content
Assemble(wrapped, v, content) == wrapped \o v \o content

\* ------------------------------------------------------------------- inputs

\* Payloads offered to encrypt_data and submit_log: ASCII strings of every
\* length 0..MaxLen, strings with multi-byte characters, a string holding a
\* lone surrogate (not encodable), dicts (empty, with escapes, with two
\* items, with a lone surrogate, with an unserialisable leaf) and an
\* unserialisable object.
StringPayloads ==
    {Str(Rep(97, n)) : n \in 0..MaxLen}
    \cup {Str(<<233>>), Str(<<104, 8364, 34>>), Str(<<55296>>)}

DictPayloads ==
    { Dict(<<>>),
      Dict(<< <<(<<101>>), Str(<<233, 34>>)>> >>),
      Dict(<< <<(<<97>>), Str(<<98>>)>>, <<(<<99>>), Dict(<<>>)>> >>),
      Dict(<< <<(<<115>>), Str(<<55296>>)>> >>),
      Dict(<< <<(<<111>>), Obj>> >>) }

Payloads == StringPayloads \cup DictPayloads \cup {Obj}

\* Values handed to set_public_key: None, the empty string, text that is no
\* PEM key, a bytes object, and the PEM text of a 1024-bit and of a 2048-bit
\* RSA public key.
ValidKeys == {Pem(128, 1), Pem(256, 2)}

KeyValues == {None, Str(<<>>), Str(<<120>>), Bytes(<<45>>)} \cup ValidKeys

\* os.urandom(n): one of the byte strings of length n the source can yield.
Urandom(n) ==
    {SeqOf([i \in 1..n |-> (83 * r + 7 * i) % 256]) : r \in 0..MaxRandom}

\* What requests.post can produce: a response with a status code, or a
\* transport-level exception.
StatusCodes == {200, 201, 202, 203, 204, 206, 301, 404, 500}

Response(code) == [type |-> "Response", status_code |-> code]

TransportErrors == {[type |-> "ConnectionError"], [type |-> "Timeout"]}

PostOutcomes == {Response(c) : c \in StatusCodes} \cup TransportErrors

\* ------------------------------------------------------------------- errors

\* raise Exception("未设置RSA公钥，请先设置公钥")
ErrNoKey == [type |-> "Exception", msg |-> "RSA public key not set"]

\* raise Exception(f"提交日志失败: 服务器响应状态码 {response.status_code}")
ErrStatus(code) ==
    [type |-> "Exception", msg |-> "submit failed: status code",
     status_code |-> code]

\* --------------------------------------------------------------------- state

VARIABLES
    public_key,         \* self.public_key
    op,                 \* the entry point called last
    arg,                \* its argument
    phase,              \* where the call stands
    json_bytes,         \* locals of encrypt_data
    aes_key,
    iv,
    padding_length,
    padded_data,
    encrypted_content,
    oaep_seed,          \* the seed OAEP drew inside public_key_obj.encrypt
    encrypted_aes_key,
    result_buffer,
    drawn,              \* bytes taken from os.urandom during the call
    posts,              \* bodies handed to requests.post during the call
    printed,            \* diagnostics printed by submit_log during the call
    post_outcome,       \* what requests.post produced during the call
    returned,           \* value the call returned to its caller
    raised,             \* exception the call raised to its caller
    first,              \* record of the first successful encrypt_data
    paired              \* the call began after `first` was recorded

locals ==
    <<json_bytes, aes_key, iv, padding_length, padded_data,
      encrypted_content, oaep_seed, encrypted_aes_key, result_buffer>>

effects == <<drawn, posts, post_outcome, printed>>

outcome == <<returned, raised>>

vars ==
    <<public_key, op, arg, phase, locals, effects, outcome, first, paired>>

Calls == {"encrypt_data", "submit_log"}

\* A call of encrypt_data or submit_log has been entered and has not ended.
InCall ==
    \/ phase \in {"Encrypting", "Wrapping", "Assembling", "Sending"}
    \/ phase = "Idle" /\ op \in Calls

Init ==
    /\ public_key = None
    /\ op = "__init__"
    /\ arg = None
    /\ phase = "Idle"
    /\ json_bytes = None
    /\ aes_key = None
    /\ iv = None
    /\ padding_length = None
    /\ padded_data = None
    /\ encrypted_content = None
    /\ oaep_seed = None
    /\ encrypted_aes_key = None
    /\ result_buffer = None
    /\ drawn = 0
    /\ posts = <<>>
    /\ post_outcome = None
    /\ printed = 0
    /\ returned = None
    /\ raised = None
    /\ first = None
    /\ paired = FALSE

\* A new call starts with a fresh frame: no local is bound, nothing has been
\* drawn, sent, printed, returned or raised.
FreshFrame ==
    /\ json_bytes' = None
    /\ aes_key' = None
    /\ iv' = None
    /\ padding_length' = None
    /\ padded_data' = None
    /\ encrypted_content' = None
    /\ oaep_seed' = None
    /\ encrypted_aes_key' = None
    /\ result_buffer' = None
    /\ drawn' = 0
    /\ posts' = <<>>
    /\ post_outcome' = None

\* ------------------------------------------------------------ set_public_key

\* A setter that keeps the first key it was given.
StoredKeyOnce(old, new) == IF old = None THEN new ELSE old

\* self.public_key = public_key_pem
StoredKey(old, new) == new

SetPublicKey(K) ==
    \E k \in K :
        /\ ~InCall
        /\ public_key' = StoredKey(public_key, k)
        /\ op' = "set_public_key"
        /\ arg' = k
        /\ phase' = "Idle"
        /\ FreshFrame
        /\ printed' = 0
        /\ returned' = True
        /\ raised' = None
        /\ paired' = FALSE
        /\ UNCHANGED first

\* ------------------------------------------------------------------- raising

\* A key check that lets every value through.
KeyMissingNever(k) == FALSE

\* if not self.public_key:
KeyMissing(k) == ~Truthy(k)

\* An except clause that tries the POST again.
AfterExceptionRetry(ph) == IF ph = "Sending" THEN "Sending" ELSE "Failed"

\* An exception ends the call: nothing catches it and resumes.
AfterException(ph) == "Failed"

\* An except clause that ends without raising.
SwallowError(e) == None

\* except Exception as e: print(...); raise
Reraise(e) == e

\* Exception e is raised at phase ph of entry point o: encrypt_data lets it
\* propagate; submit_log prints a diagnostic and raises it again.
Raise(o, ph, e) ==
    /\ phase' = AfterException(ph)
    /\ returned' = None
    /\ IF o = "submit_log"
       THEN /\ printed' = printed + 1
            /\ raised' = Reraise(e)
       ELSE /\ printed' = printed
            /\ raised' = e

\* ------------------------------------------------------------- entry points

\* The caller invokes entry point o with payload d; nothing has run yet.
Enter(o, d) ==
    /\ ~InCall
    /\ op' = o
    /\ arg' = d
    /\ phase' = "Idle"
    /\ FreshFrame
    /\ printed' = 0
    /\ returned' = None
    /\ raised' = None
    /\ paired' = (first # None)
    /\ UNCHANGED <<public_key, first>>

\* client.encrypt_data(data)
CallEncryptData(D) == \E d \in D : Enter("encrypt_data", d)

\* client.submit_log(log_data)
CallSubmitLog(D) == \E d \in D : Enter("submit_log", d)

\* ------------------------------------------------------------- encrypt_data

\* if not self.public_key: raise Exception(...)
CheckKey ==
    /\ phase = "Idle"
    /\ op \in Calls
    /\ IF KeyMissing(public_key)
       THEN Raise(op, phase, ErrNoKey)
       ELSE /\ phase' = "Encrypting"
            /\ UNCHANGED <<printed, outcome>>
    /\ UNCHANGED <<public_key, op, arg, locals, drawn, posts, post_outcome,
                   first, paired>>

\* Steps 1 to 5: serialise, draw the key and the IV, pad, encrypt.
EncryptStep ==
    /\ phase = "Encrypting"
    /\ IF ~Serializable(arg)
       THEN /\ Raise(op, phase, [type |-> "TypeError"])
            /\ UNCHANGED <<json_bytes, aes_key, iv, padding_length,
                           padded_data, encrypted_content, drawn>>
       ELSE IF ~Encodable(JsonStr(arg))
       THEN /\ Raise(op, phase, [type |-> "UnicodeEncodeError"])
            /\ UNCHANGED <<json_bytes, aes_key, iv, padding_length,
                           padded_data, encrypted_content, drawn>>
       ELSE \E k \in Urandom(AesKeyLen), v \in Urandom(IvLength) :
            /\ json_bytes' = Bytes(Utf8Encode(JsonStr(arg)))
            /\ aes_key' = Bytes(k)
            /\ iv' = Bytes(v)
            /\ drawn' = drawn + AesKeyLen + IvLength
            /\ padding_length' =
                   PyInt(PaddingLength(Len(Utf8Encode(JsonStr(arg)))))
            /\ padded_data' = Bytes(Pad(Utf8Encode(JsonStr(arg))))
            /\ encrypted_content' =
                   Bytes(CbcEncrypt(k, v, Pad(Utf8Encode(JsonStr(arg)))))
            /\ phase' = "Wrapping"
            /\ UNCHANGED <<printed, outcome>>
    /\ UNCHANGED <<public_key, op, arg, oaep_seed, encrypted_aes_key,
                   result_buffer, posts, post_outcome, first, paired>>

\* Step 6: parse the stored key and wrap the AES key under it.
WrapStep ==
    /\ phase = "Wrapping"
    /\ IF ~Parsable(public_key)
       THEN /\ Raise(op, phase, LoadError(public_key))
            /\ UNCHANGED <<oaep_seed, encrypted_aes_key>>
       ELSE \E s \in Urandom(HashLen) :
            /\ oaep_seed' = Bytes(s)
            /\ encrypted_aes_key' =
                   Bytes(PublicEncrypt(LoadPemPublicKey(public_key), aes_key.b, s))
            /\ phase' = "Assembling"
            /\ UNCHANGED <<printed, outcome>>
    /\ UNCHANGED <<public_key, op, arg, json_bytes, aes_key, iv,
                   padding_length, padded_data, encrypted_content,
                   result_buffer, drawn, posts, post_outcome, first, paired>>

\* The record kept of a successful encrypt_data.
Record(packet) ==
    [arg |-> arg, public_key |-> public_key, aes_key |-> aes_key, iv |-> iv,
     oaep_seed |-> oaep_seed, packet |-> packet]

\* Step 7: build the packet and return it; submit_log goes on to send it.
\* With track, the first packet encrypt_data returns is remembered.
AssembleStep(track) ==
    /\ phase = "Assembling"
    /\ result_buffer' =
           Bytes(Assemble(encrypted_aes_key.b, iv.b, encrypted_content.b))
    /\ IF op = "encrypt_data"
       THEN /\ phase' = "Success"
            /\ returned' = result_buffer'
            /\ first' = IF track /\ first = None
                        THEN Record(result_buffer')
                        ELSE first
       ELSE /\ phase' = "Sending"
            /\ returned' = returned
            /\ first' = first
    /\ UNCHANGED <<public_key, op, arg, json_bytes, aes_key, iv,
                   padding_length, padded_data, encrypted_content, oaep_seed,
                   encrypted_aes_key, effects, raised, paired>>

\* ---------------------------------------------------------------- submit_log

\* Every 2xx status counts as success.
IsSuccessStatusAny2xx(code) == code >= 200 /\ code < 300

\* response.status_code not in [200, 201, 202, 204]
IsSuccessStatus(code) == code \in {200, 201, 202, 204}

\* requests.post(f"{self.api_url}/api/logs", data=encrypted_data, ...), the
\* status check and the return.
PostStep ==
    /\ phase = "Sending"
    /\ posts' = Append(posts, result_buffer)
    /\ \E r \in PostOutcomes :
          /\ post_outcome' = r
          /\ IF r.type = "Response"
             THEN IF IsSuccessStatus(r.status_code)
                  THEN /\ phase' = "Success"
                       /\ returned' = r
                       /\ UNCHANGED <<raised, printed>>
                  ELSE Raise(op, phase, ErrStatus(r.status_code))
             ELSE Raise(op, phase, r)
    /\ UNCHANGED <<public_key, op, arg, locals, drawn, first, paired>>

\* ------------------------------------------------------------ specifications

Next ==
    \/ SetPublicKey(KeyValues)
    \/ CallEncryptData(Payloads)
    \/ CallSubmitLog(Payloads)
    \/ CheckKey
    \/ EncryptStep
    \/ WrapStep
    \/ AssembleStep(FALSE)
    \/ PostStep

Spec == Init /\ [][Next]_vars

\* The inputs of the two-call runs: a block-aligned string and a dict; a
\* missing key and the two RSA keys.
PairPayloads ==
    {Str(Rep(97, BlockSize)), Dict(<< <<(<<101>>), Str(<<233, 34>>)>> >>)}

PairKeys == {None} \cup ValidKeys

NextPair ==
    \/ SetPublicKey(PairKeys)
    \/ CallEncryptData(PairPayloads)
    \/ CheckKey
    \/ EncryptStep
    \/ WrapStep
    \/ AssembleStep(TRUE)

\* Runs of set_public_key and encrypt_data that remember the first packet
\* encrypt_data returned.
SpecPair == Init /\ [][NextPair]_vars

\* ----------------------------------------------------------------- receiver
\* The holder of the private key, as sections 4.4, 6 and 8 of the
\* specification describe it: split at N and N + 16, unwrap, decrypt, strip.

BlockDecrypt(key, c) ==
    SeqOf([j \in 1..BlockSize |->
        LET i == IF j = 1 THEN BlockSize ELSE j - 1
        IN  (c[i] + 1024 - key[i] - 3 * key[i + BlockSize]) % 256])

RECURSIVE CbcUnchain(_, _, _)
CbcUnchain(key, prevc, content) ==
    IF Len(content) < BlockSize THEN <<>>
    ELSE LET c == SubSeq(content, 1, BlockSize)
         IN  XorBytes(BlockDecrypt(key, c), prevc)
             \o CbcUnchain(key, c, SubSeq(content, BlockSize + 1, Len(content)))

CbcDecrypt(key, v, content) == CbcUnchain(key, v, content)

\* The private key of the pair a PEM public key belongs to.
PrivateKeyOf(k) == k.pem

RsaPrivate(sk, c) ==
    SeqOf([i \in 1..sk.n |-> (c[i] + 2048 - 5 * sk.id - i) % 256])

\* Index of the 01 byte that ends the zero padding of DB after lHash, 0 when
\* the first non-zero byte there is not 01.
Separator(db) ==
    LET nz == {i \in (HashLen + 1)..Len(db) : db[i] # 0}
    IN  IF nz = {} THEN 0
        ELSE LET m == CHOOSE i \in nz : \A j \in nz : i <= j
             IN  IF db[m] = 1 THEN m ELSE 0

\* OAEP decoding: <<>> when the encoding is not well formed.
OaepDecode(em) ==
    LET maskedSeed == SubSeq(em, 2, HashLen + 1)
        maskedDB == SubSeq(em, HashLen + 2, Len(em))
        seed == XorBytes(maskedSeed, Mgf(maskedDB, HashLen))
        db == XorBytes(maskedDB, Mgf(seed, Len(maskedDB)))
        sep == Separator(db)
    IN  IF em[1] = 0 /\ SubSeq(db, 1, HashLen) = LHash /\ sep > 0
        THEN SubSeq(db, sep + 1, Len(db))
        ELSE <<>>

PrivateDecrypt(sk, c) == OaepDecode(RsaPrivate(sk, c))

WrappedPart(sk, packet) == SubSeq(packet, 1, sk.n)

IvPart(sk, packet) == SubSeq(packet, sk.n + 1, sk.n + IvLength)

CipherPart(sk, packet) == SubSeq(packet, sk.n + IvLength + 1, Len(packet))

\* The padded plaintext the receiver obtains from a packet.
ReceiverPadded(sk, packet) ==
    CbcDecrypt(PrivateDecrypt(sk, WrappedPart(sk, packet)),
               IvPart(sk, packet), CipherPart(sk, packet))

\* The trailing bytes announced by the last byte are all equal to it.
PaddingWellFormed(padded) ==
    /\ Len(padded) > 0
    /\ padded[Len(padded)] \in 1..BlockSize
    /\ padded[Len(padded)] <= Len(padded)
    /\ \A i \in (Len(padded) - padded[Len(padded)] + 1)..Len(padded) :
          padded[i] = padded[Len(padded)]

\* Strip as many trailing bytes as the last byte says.
Unpad(padded) ==
    IF Len(padded) = 0 \/ padded[Len(padded)] > Len(padded) THEN padded
    ELSE SubSeq(padded, 1, Len(padded) - padded[Len(padded)])

ReceiverDecrypt(sk, packet) == Unpad(ReceiverPadded(sk, packet))

Ceil16(x) == ((x + BlockSize - 1) \div BlockSize) * BlockSize

Terminal == {"Success", "Failed"}

\* encrypt_data has returned a packet to its caller.
Encrypted == op = "encrypt_data" /\ phase = "Success"

PlainBytes == Utf8Encode(JsonStr(arg))

\* ------------------------------------------------------------------- claims

\* C1: with no public key configured (public_key is None) a call of
\* encrypt_data or submit_log that has passed the key check has failed with
\* the configuration error, having drawn no random byte, bound no cipher or
\* key-wrapping result, returned nothing and issued no HTTP POST.
C1_NoKeyFailsBeforeAnyWork ==
    (op \in Calls /\ public_key = None /\ phase # "Idle") =>
        /\ phase = "Failed"
        /\ raised = ErrNoKey
        /\ returned = None
        /\ drawn = 0
        /\ posts = <<>>
        /\ post_outcome = None
        /\ \A i \in 1..Len(locals) : locals[i] = None

C1_Witness ==
    op = "submit_log" /\ public_key = None /\ phase = "Failed" /\ printed = 1

\* C2: once encrypt_data has padded a plaintext of L bytes, padding_length is
\* 16 - (L mod 16), lies in 1..16 (16 when L mod 16 = 0), the padded data is
\* the plaintext followed by padding_length bytes of value padding_length,
\* and its length is a multiple of 16.
C2_PaddingIsFullPkcs7 ==
    (json_bytes # None) =>
        LET L == Len(json_bytes.b)
            n == padding_length.n
            padded == padded_data.b
        IN  /\ n = 16 - (L % 16)
            /\ n \in 1..16
            /\ (L % 16 = 0) => (n = 16)
            /\ Len(padded) = L + n
            /\ SubSeq(padded, 1, L) = json_bytes.b
            /\ \A i \in (L + 1)..(L + n) : padded[i] = n
            /\ Len(padded) % 16 = 0

C2_Witness ==
    /\ json_bytes # None
    /\ Len(json_bytes.b) = 16
    /\ padding_length.n = 16
    /\ Len(padded_data.b) = 32

\* C3: the packet a successful encrypt_data returns has length
\* N + 16 + ceil16(L + 1), N the modulus length of the configured key and L
\* the length of the UTF-8 plaintext.
C3_PacketLength ==
    Encrypted =>
        Len(returned.b) = public_key.pem.n + 16 + Ceil16(Len(PlainBytes) + 1)

C3_Witness ==
    /\ Encrypted
    /\ public_key.pem.n = 256
    /\ Len(PlainBytes) = 16
    /\ Len(returned.b) = 256 + 16 + 32

\* C4: round trip: the receiver, splitting the returned packet at N and
\* N + 16, unwrapping the key with the matching private key, decrypting and
\* stripping the bytes the last byte announces, obtains the UTF-8 bytes of the
\* payload (the string itself, the JSON text of a mapping), from a padding
\* whose bytes all equal its length.
C4_RoundTrip ==
    Encrypted =>
        /\ PaddingWellFormed(ReceiverPadded(PrivateKeyOf(public_key), returned.b))
        /\ ReceiverDecrypt(PrivateKeyOf(public_key), returned.b) = PlainBytes

C4_Witness ==
    /\ Encrypted
    /\ arg.type = "dict"
    /\ Len(arg.items) = 2
    /\ ReceiverDecrypt(PrivateKeyOf(public_key), returned.b)
           = Utf8Encode(JsonDumps(arg))

\* C5: a finished submit_log has returned a response exactly when its one
\* POST completed with status 200, 201, 202 or 204, and then returns that
\* response; after any other status it has raised an error carrying the
\* status code, after a transport failure it has raised that failure, and in
\* both cases it returned nothing.
C5_SuccessIffSuccessStatus ==
    (op = "submit_log" /\ phase \in Terminal) =>
        /\ (returned # None) <=>
               /\ post_outcome.type = "Response"
               /\ post_outcome.status_code \in {200, 201, 202, 204}
        /\ (returned # None) =>
               returned = post_outcome /\ raised = None /\ phase = "Success"
        /\ (returned = None) => (raised # None /\ phase = "Failed")
        /\ (post_outcome.type = "Response" /\ returned = None) =>
               /\ raised.type = "Exception"
               /\ "status_code" \in DOMAIN raised
               /\ raised.status_code = post_outcome.status_code
        /\ (post_outcome \in TransportErrors) => raised = post_outcome
        /\ Len(posts) <= 1

C5_Witness ==
    /\ op = "submit_log"
    /\ phase = "Failed"
    /\ post_outcome = Response(203)
    /\ raised = ErrStatus(203)

Rank(ph) ==
    CASE ph = "Idle" -> 0
      [] ph = "Encrypting" -> 1
      [] ph = "Wrapping" -> 2
      [] ph = "Assembling" -> 3
      [] ph = "Sending" -> 4
      [] OTHER -> 5

C6_Outcome ==
    (op = "submit_log") =>
        /\ Len(posts) <= 1
        /\ (phase \in Terminal) =>
               /\ (phase = "Success") <=> (returned # None /\ raised = None)
               /\ (phase = "Failed") <=> (raised # None /\ returned = None)
               /\ (Len(posts) = 1) <=> (result_buffer # None)
        /\ (phase \notin Terminal) => (returned = None /\ raised = None)

C6_Step ==
    /\ (op = "submit_log" /\ InCall) =>
           /\ op' = op
           /\ arg' = arg
           /\ Rank(phase') > Rank(phase)
           /\ (phase' # "Failed") => (Rank(phase') = Rank(phase) + 1)
           /\ (posts' # posts) => (phase = "Sending" /\ Len(posts') = 1)
           /\ (phase = "Sending") => (posts' # posts)
    /\ (op = "submit_log" /\ phase \in Terminal) =>
           (phase' = "Idle" /\ posts' = <<>>)

SecondOfPair ==
    /\ paired
    /\ Encrypted
    /\ first.arg = arg
    /\ first.public_key = public_key

SameDraws ==
    first.aes_key = aes_key /\ first.iv = iv /\ first.oaep_seed = oaep_seed

C8_PacketLayout ==
    (result_buffer # None) =>
        LET sk == PrivateKeyOf(public_key)
            N == sk.n
            packet == result_buffer.b
        IN  /\ Len(encrypted_aes_key.b) = N
            /\ Len(iv.b) = 16
            /\ Len(packet) = N + 16 + Len(encrypted_content.b)
            /\ SubSeq(packet, 1, N) = encrypted_aes_key.b
            /\ SubSeq(packet, N + 1, N + 16) = iv.b
            /\ SubSeq(packet, N + 17, Len(packet)) = encrypted_content.b
            /\ PrivateDecrypt(sk, SubSeq(packet, 1, N)) = aes_key.b
            /\ CbcDecrypt(aes_key.b, SubSeq(packet, N + 1, N + 16),
                          SubSeq(packet, N + 17, Len(packet))) = padded_data.b
            /\ Encrypted => (returned = result_buffer)
            /\ (posts # <<>>) => (posts = <<result_buffer>>)

C8_Witness ==
    /\ op = "submit_log"
    /\ posts = <<result_buffer>>
    /\ result_buffer # None
    /\ Len(json_bytes.b) = 17
    /\ SubSeq(result_buffer.b, 129, 144) = iv.b

\* C9 as stated: once a key has been set no call changes the stored key.
C9_KeyNeverChangesOnceSet ==
    [][(public_key # None) => (public_key' = public_key)]_vars

C9_Step ==
    /\ (public_key' # public_key) => (~InCall /\ op' = "set_public_key")
    /\ (~InCall /\ op' = "set_public_key") => (public_key' = arg')
    /\ (~InCall /\ InCall') =>
           /\ \A i \in 1..Len(locals) : locals'[i] = None
           /\ drawn' = 0
           /\ posts' = <<>>
           /\ post_outcome' = None

\* C9 as amended: encrypt_data and submit_log never change the stored public
\* key, whether they succeed or fail; set_public_key stores its argument on
\* every call, also when a key is already set; and a call starts with no
\* key material, IV or buffer of an earlier call bound.
C9_OnlySetterChangesKey == [][C9_Step]_vars

C9_Witness ==
    /\ op = "submit_log"
    /\ phase = "Success"
    /\ public_key = Pem(256, 2)

ExpectedError ==
    IF ~Truthy(public_key) THEN ErrNoKey
    ELSE IF ~Serializable(arg) THEN [type |-> "TypeError"]
    ELSE IF ~Encodable(JsonStr(arg)) THEN [type |-> "UnicodeEncodeError"]
    ELSE LoadError(public_key)

\* C10: set_public_key stores any value unvalidated and returns True; a call
\* made with a stored key that is no parsable public key, or with a payload
\* that cannot be serialised, ends Failed with the error encrypt_data raised
\* reaching the caller (submit_log printing one diagnostic first), with no
\* POST issued and no packet built or returned; and every failed call has
\* raised an error.
C10_ErrorsSurface ==
    /\ (op = "set_public_key") =>
           (returned = True /\ raised = None /\ public_key = arg)
    /\ (op \in Calls /\ phase = "Failed") => (raised # None)
    /\ ( /\ op \in Calls
         /\ phase \in Terminal
         /\ \/ ~IsPem(public_key)
            \/ ~Serializable(arg)
            \/ ~Encodable(JsonStr(arg)) ) =>
           /\ phase = "Failed"
           /\ raised = ExpectedError
           /\ returned = None
           /\ posts = <<>>
           /\ post_outcome = None
           /\ result_buffer = None
           /\ printed = (IF op = "submit_log" THEN 1 ELSE 0)

C10_Witness ==
    /\ op = "submit_log"
    /\ phase = "Failed"
    /\ public_key = Str(<<120>>)
    /\ raised = [type |-> "ValueError"]
    /\ printed = 1

====
